---- MODULE Spec2Model ----
(***************************************************************************)
(* MultiSet VPS WebXR SDK: the localization client (src/lib/core) and the  *)
(* WebXR controller (src/lib/webxr) as one state machine.                  *)
(*                                                                         *)
(* Every asynchronous call of the API (authorize, localizeWithFrame,       *)
(* captureFrame) lives in a slot of `calls` while it is suspended at an    *)
(* await; `pc` names the await.  The trace of a call lists, in order, the  *)
(* notifications it has emitted and the requests it has issued.  When a    *)
(* call returns, throws or settles, or the runtime dispatches a signal,    *)
(* the outcome is in `ret` until the caller has taken it, which JavaScript *)
(* runs (synchronously, or as a microtask) before any other event.         *)
(***************************************************************************)
EXTENDS Integers, Sequences, FiniteSets

\* ------------------------------------------------------------------ bounds
MaxCalls == 2          \* calls of the API suspended at an await at one time
MaxViews == 2          \* camera views of one viewer pose
MaxRenderers == 2      \* initialize() calls that build a renderer
MaxEntry == 2          \* projection-matrix elements range over -1..MaxEntry
MaxHalf == 2           \* image widths and heights range over 2, 4, .., 2*MaxHalf
MaxWidth == 2          \* pixels in a row of a buffer that is flipped
MaxHeight == 3         \* rows of a buffer that is flipped
MaxBase == 7           \* first byte of a buffer that is flipped

\* An application that guards its calls (`if (localizing) return;`) has one
\* call in flight at a time.
SerialCalls == 1

Slots == 1..MaxCalls
SerialSlots == 1..SerialCalls
RendererIds == 1..MaxRenderers

\* ------------------------------------------------------------ value domains
Undefined == "undefined"          \* a field that is absent (undefined / null)
NoToken   == "null"               \* accessToken: string | null = null

\* JavaScript truthiness of a string-or-undefined value: `!token`
Falsy(v) == v = Undefined \/ v = ""

\* Bodies the authorization endpoint may answer with (response.data); the
\* body itself may be missing.
TokenFieldValues  == {Undefined, "", "t1"}
AccessFieldValues == {Undefined, "", "t2"}
AuthBodies == [token : TokenFieldValues, access_token : AccessFieldValues]
NoBody == [token |-> Undefined, access_token |-> Undefined]

\* What an awaited HTTP request comes back with: the transport fails (axios
\* rejects) or a response with a body arrives.
AuthResponses == {[ok |-> FALSE, data |-> NoBody]}
                   \cup {[ok |-> TRUE, data |-> d] : d \in AuthBodies}

\* ILocalizeResponse, reduced to the fields the client reads.
MapIdLists == {<<>>, <<"m1">>, <<"m2", "m1">>}
LocalizeBodies == [poseFound : BOOLEAN, mapIds : MapIdLists]
NoData == [poseFound |-> FALSE, mapIds |-> <<>>]
QueryResponses == {[ok |-> FALSE, data |-> NoData]}
                    \cup {[ok |-> TRUE, data |-> d] : d \in LocalizeBodies}

\* The map-detail GET: transport failure, an empty body, or the details.
DetailResponses == {"fail", "empty", "ok"}
NoDetails == "absent"
DetailsOf(mapId) == mapId          \* IGetMapsDetailsResponse of map mapId

\* ILocalizeAndMapDetails | null
NullResult == [isNull |-> TRUE, localizeData |-> NoData, mapDetails |-> NoDetails]
ResultOf(data, details) ==
    [isNull |-> FALSE, localizeData |-> data, mapDetails |-> details]

\* Error messages thrown by the code.
ErrNoTokenReturned == "Authorization succeeded but no token was returned."
ErrMissingToken    == "Access token is missing. Call authorize() first."
ErrTransport       == "AxiosError"
ErrSecureContext   == "WebXR requires a secure context (HTTPS)."
ErrWebGL           == "Error creating WebGL context."
ErrScene           == "Scene: WebXR controller has not been initialized."
ErrCamera          == "Camera: WebXR controller has not been initialized."
ErrRenderer        == "Renderer: WebXR controller has not been initialized."
ErrNotInitialized  == "WebXR: WebXR controller has not been initialized."
ErrNoSession       == "WebXR Session: No active WebXR session. Start AR before capturing."
ErrNoReferenceSpace == "WebXR Reference Space: Unable to acquire XR reference space."
ErrTypeError       == "TypeError"
NoError            == "none"

\* Handles: 0 is null; n > 0 is the object built by the n-th initialize()
\* that got as far as building one.  The renderer, camera, scene, render loop
\* callback, launch button and resize handler of one initialize() share n.
Null == 0

\* A camera view of a viewer pose: without view.camera, with a camera the
\* binding has no image for, with a camera of zero width or height, or with
\* a camera whose texture can be read back (two such views, which differ in
\* their dimensions and in their projection).
Readable == {"camera", "camera2"}
ViewKinds == {"noCamera", "noTexture", "noSize"} \cup Readable

\* view.camera.width / .height of a readable view (even, so that the halves
\* the intrinsics are made of are whole numbers)
CameraOf(kind) ==
    IF kind = "camera" THEN [width |-> 4, height |-> 2]
    ELSE [width |-> 2, height |-> 6]

\* A projection matrix, column-major, of which the library reads the
\* elements 0, 5, 8 and 9.
Matrix(p0, p5, p8, p9) ==
    [i \in 0..15 |-> IF i = 0 THEN p0 ELSE IF i = 5 THEN p5
                     ELSE IF i = 8 THEN p8 ELSE IF i = 9 THEN p9 ELSE 0]

\* view.projectionMatrix of a readable view
ProjectionOf(kind) ==
    IF kind = "camera" THEN Matrix(2, 3, 0, 1) ELSE Matrix(1, 2, -1, 0)

RECURSIVE SeqsUpTo(_, _)
SeqsUpTo(S, n) ==
    IF n = 0 THEN {<<>>}
    ELSE LET shorter == SeqsUpTo(S, n - 1) IN
           shorter \cup {Append(q, x) : q \in {r \in shorter : Len(r) = n - 1}, x \in S}
ViewLists == SeqsUpTo(ViewKinds, MaxViews)
\* xrFrame.getViewerPose(referenceSpace): null, or a pose with its views
ViewerPoses == {[found |-> FALSE, views |-> <<>>]}
                 \cup {[found |-> TRUE, views |-> v] : v \in ViewLists}

VARIABLES
    accessToken,      \* MultisetClient.accessToken
    calls,            \* the calls of the API suspended at an await, per slot
    isSecureContext,  \* window.isSecureContext
    ctl,              \* the fields of the WebxrController
    env,              \* per renderer built: its XR manager, loop, window and DOM
    built,            \* renderers built so far
    ret,              \* the outcome the last step handed to its caller
    config,           \* MultisetClient.config: mapType and code
    sample            \* a pure function of the library, applied to an input

\* what no operation of the library writes
given  == <<isSecureContext, config, sample>>
world  == <<given, ctl, env, built>>
vars   == <<accessToken, calls, isSecureContext, ctl, env, built, ret, config, sample>>

\* IMultisetSdkConfig, reduced to what the requests are built from.
MapTypes == {"map", "map-set"}
Configs == [mapType : MapTypes, code : {"CODE"}]

NoSample == [fn |-> "none"]

\* IFrameCaptureEvent (its blob left out) and ICameraIntrinsicsEvent
NoFrame == [width |-> 0, height |-> 0]
NoIntrinsics == [fx |-> 0, fy |-> 0, px |-> 0, py |-> 0, width |-> 0, height |-> 0]

\* getCameraIntrinsics(projectionMatrix, viewport)
\* intrinsics with the principal point read from the focal elements
getCameraIntrinsicsFocalOnly(p, viewport) ==
    LET u0 == ((1 - p[0]) * viewport.width) \div 2 + viewport.x
        v0 == ((1 - p[5]) * viewport.height) \div 2 + viewport.y
        ax == (viewport.width \div 2) * p[0]
        ay == (viewport.height \div 2) * p[5]
    IN [fx |-> ax, fy |-> ay, px |-> u0, py |-> v0,
        width |-> viewport.width, height |-> viewport.height]

getCameraIntrinsics(p, viewport) ==
    LET u0 == ((1 - p[8]) * viewport.width) \div 2 + viewport.x
        v0 == ((1 - p[9]) * viewport.height) \div 2 + viewport.y
        ax == (viewport.width \div 2) * p[0]
        ay == (viewport.height \div 2) * p[5]
    IN [fx |-> ax, fy |-> ay, px |-> u0, py |-> v0,
        width |-> viewport.width, height |-> viewport.height]

\* The multipart form of the localization request, with the Authorization
\* header it is sent under.  A field that is not appended is Undefined.
NoForm == [isRightHanded |-> Undefined, width |-> 0, height |-> 0,
           px |-> 0, py |-> 0, fx |-> 0, fy |-> 0,
           mapCode |-> Undefined, mapSetCode |-> Undefined,
           authorization |-> Undefined]

\* the form with the code always under mapCode
formDataMapCode(frame, intrinsics, cfg, tok) ==
    [isRightHanded |-> "true",
     width |-> frame.width, height |-> frame.height,
     px |-> intrinsics.px, py |-> intrinsics.py,
     fx |-> intrinsics.fx, fy |-> intrinsics.fy,
     mapCode |-> cfg.code, mapSetCode |-> Undefined,
     authorization |-> tok]

formData(frame, intrinsics, cfg, tok) ==
    [isRightHanded |-> "true",
     width |-> frame.width, height |-> frame.height,
     px |-> intrinsics.px, py |-> intrinsics.py,
     fx |-> intrinsics.fx, fy |-> intrinsics.fy,
     mapCode |-> IF cfg.mapType = "map" THEN cfg.code ELSE Undefined,
     mapSetCode |-> IF cfg.mapType = "map" THEN Undefined ELSE cfg.code,
     authorization |-> tok]

\* --------------------------------------------------------------- call records
NoAuthResponse == [ok |-> FALSE, data |-> NoBody]
NoQueryResponse == [ok |-> FALSE, data |-> NoData]

\* A call: the operation (op), the await it is suspended at (pc), how it
\* ended (out, with err, or handle, token or val), the responses it has
\* received (aresp, resp, dresp), the map identifier its detail request was
\* keyed by (getId), its trace and, for captureFrame, the renderer it took
\* at the call, how many views of the pose its loop has not yet reached and
\* the view it read back last; the frame and the intrinsics localizeWithFrame
\* was given and the form queryLocalization posted.
Idle == [op |-> "idle", pc |-> "idle", out |-> "none", err |-> NoError,
         handle |-> Null, token |-> NoToken, val |-> NullResult,
         aresp |-> NoAuthResponse, resp |-> NoQueryResponse,
         dresp |-> "none", getId |-> "none", trace |-> <<>>,
         renderer |-> Null, views |-> 0, view |-> "none",
         frame |-> NoFrame, intrinsics |-> NoIntrinsics, form |-> NoForm]
NoRet == Idle

Call(op) == [Idle EXCEPT !.op = op]

Settled(c)  == c.pc = "done"
Resolved(c) == c.pc = "done" /\ c.out = "resolved"
Rejected(c) == c.pc = "done" /\ c.out = "rejected"

\* a promise rejects or resolves; a synchronous method throws or returns
Reject(c, e)  == [c EXCEPT !.pc = "done", !.out = "rejected", !.err = e]
Resolve(c, v) == [c EXCEPT !.pc = "done", !.out = "resolved", !.val = v]
ResolveHandle(c, h) == [c EXCEPT !.pc = "done", !.out = "resolved", !.handle = h]
Throw(c, e)   == [c EXCEPT !.pc = "done", !.out = "threw", !.err = e]
Return(c, h)  == [c EXCEPT !.pc = "done", !.out = "returned", !.handle = h]

Has(trace, e) == \E i \in 1..Len(trace) : trace[i] = e
Count(trace, e) == Cardinality({i \in 1..Len(trace) : trace[i] = e})
Emit(c, e) == [c EXCEPT !.trace = Append(c.trace, e)]

\* A call starts in the lowest free slot, once the caller of the last step
\* has taken its outcome.
Free(s) == /\ ret = NoRet
           /\ calls[s] = Idle
           /\ \A t \in Slots : t < s => calls[t] # Idle

\* The call of slot s goes on as n: it stays suspended, or it has settled
\* and its outcome goes to the caller.
Proceed(s, n) ==
    /\ calls' = [calls EXCEPT ![s] = IF Settled(n) THEN Idle ELSE n]
    /\ ret' = IF Settled(n) THEN n ELSE NoRet

\* ------------------------------------------------------------ MultisetClient

\* handleError that swallows the error without notifying
handleErrorSilent(c) == c

\* handleError: both branches invoke config.onError with the error.
handleError(c) == Emit(c, "onError")

\* authorize: response.data?.token ?? response.data?.access_token
selectToken(data) ==
    IF data.token # Undefined THEN data.token ELSE data.access_token

\* authorize up to its await: the credential-bearing POST is issued.
authorizeBegin(c) == Emit([c EXCEPT !.pc = "auth"], "authPOST")

\* authorize after its await, given what the POST came back with.  The
\* result is the call as settled; a resolved call carries the token.
authorizeContinue(c, r) ==
    IF ~r.ok
      THEN \* axios.post rejected: catch, handleError, rethrow
           Reject(handleError(c), ErrTransport)
      ELSE IF Falsy(selectToken(r.data))
      THEN \* thrown inside the try: caught, handleError, rethrown
           Reject(handleError(c), ErrNoTokenReturned)
      ELSE \* this.accessToken = token; onAuthorize?.(token); return token
           Emit([c EXCEPT !.pc = "done", !.out = "resolved",
                          !.token = selectToken(r.data)], "onAuthorize")

\* the token dropped when authorize fails
authorizeStoreOrClear(tok, n) == IF Resolved(n) THEN n.token ELSE NoToken

\* The token the client holds after authorize has continued as n.
authorizeStore(tok, n) == IF Resolved(n) THEN n.token ELSE tok

AuthorizeCall(s) ==
    /\ Free(s)
    /\ Proceed(s, authorizeBegin(Call("authorize")))
    /\ UNCHANGED <<accessToken, world>>

AuthorizeSettle(s) ==
    /\ ret = NoRet
    /\ calls[s].op = "authorize" /\ calls[s].pc = "auth"
    /\ \E r \in AuthResponses :
         LET n == authorizeContinue([calls[s] EXCEPT !.aresp = r], r) IN
           /\ Proceed(s, n)
           /\ accessToken' = authorizeStore(accessToken, n)
    /\ UNCHANGED world

\* localizeWithFrame without the token check
localizeWithFrameUnchecked(c, tok) ==
    Emit(Emit(Emit([c EXCEPT !.pc = "query"],
         "onFrameCaptured"), "onCameraIntrinsics"), "queryPOST")

\* localizeWithFrame issuing its request before the two notifications
localizeWithFrameBeginPostFirst(c, tok) ==
    IF tok = NoToken \/ Falsy(tok)
      THEN Reject(c, ErrMissingToken)
      ELSE Emit(Emit(Emit([c EXCEPT !.pc = "query"],
                "queryPOST"), "onFrameCaptured"), "onCameraIntrinsics")

\* localizeWithFrame up to its first await: the token check, the two
\* notifications, then queryLocalization builds the form and issues the POST.
localizeWithFrameBegin(c, tok) ==
    IF tok = NoToken \/ Falsy(tok)
      THEN Reject(c, ErrMissingToken)
      ELSE Emit(Emit(Emit([c EXCEPT !.pc = "query"],
                "onFrameCaptured"), "onCameraIntrinsics"), "queryPOST")

\* fetchMapDetails issuing its GET a second time
fetchMapDetailsBeginAgain(c, mapId) ==
    Emit(Emit([c EXCEPT !.pc = "details", !.getId = mapId], "mapGET"), "mapGET")

\* fetchMapDetails up to its await: the GET keyed by mapId is issued.
fetchMapDetailsBegin(c, mapId) ==
    Emit([c EXCEPT !.pc = "details", !.getId = mapId], "mapGET")

\* The tail of localizeWithFrame once queryLocalization has returned v.
localizeWithFrameEnd(c, v) ==
    IF ~v.isNull /\ v.localizeData.poseFound
      THEN Resolve(Emit(c, "onPoseResult"), v)
      ELSE Resolve(c, v)

\* queryLocalization that builds a result whatever poseFound says
queryLocalizationAnyPose(c, r) ==
    IF ~r.ok
      THEN localizeWithFrameEnd(handleError(c), NullResult)
      ELSE IF Len(r.data.mapIds) > 0
      THEN fetchMapDetailsBegin(c, r.data.mapIds[1])
      ELSE localizeWithFrameEnd(c, ResultOf(r.data, NoDetails))

\* queryLocalization that lets a failure of the POST out to its caller
queryLocalizationRethrows(c, r) ==
    IF ~r.ok
      THEN Reject(handleError(c), ErrTransport)
      ELSE IF ~r.data.poseFound
      THEN localizeWithFrameEnd(c, NullResult)
      ELSE IF Len(r.data.mapIds) > 0
      THEN fetchMapDetailsBegin(c, r.data.mapIds[1])
      ELSE localizeWithFrameEnd(c, ResultOf(r.data, NoDetails))

\* queryLocalization after the POST came back.
queryLocalizationContinue(c, r) ==
    IF ~r.ok
      THEN \* catch: handleError, return null
           localizeWithFrameEnd(handleError(c), NullResult)
      ELSE IF ~r.data.poseFound
      THEN localizeWithFrameEnd(c, NullResult)
      ELSE IF Len(r.data.mapIds) > 0
      THEN fetchMapDetailsBegin(c, r.data.mapIds[1])
      ELSE localizeWithFrameEnd(c, ResultOf(r.data, NoDetails))

\* fetchMapDetails whose failure takes the whole result with it
fetchMapDetailsFatal(c, d) ==
    IF d = "fail"
      THEN localizeWithFrameEnd(handleError(c), NullResult)
      ELSE IF d = "empty"
      THEN localizeWithFrameEnd(c, ResultOf(c.resp.data, NoDetails))
      ELSE localizeWithFrameEnd(c, ResultOf(c.resp.data, DetailsOf(c.getId)))

\* fetchMapDetails after the GET came back, then the rest of
\* queryLocalization and of localizeWithFrame.
fetchMapDetailsContinue(c, d) ==
    IF d = "fail"
      THEN \* catch: handleError, return null; result.mapDetails stays unset
           localizeWithFrameEnd(handleError(c), ResultOf(c.resp.data, NoDetails))
      ELSE IF d = "empty"
      THEN localizeWithFrameEnd(c, ResultOf(c.resp.data, NoDetails))
      ELSE localizeWithFrameEnd(c, ResultOf(c.resp.data, DetailsOf(c.getId)))

\* queryLocalization: the request that went out, if localizeWithFrame got
\* as far as issuing it.
queryLocalizationBegin(c, cfg, tok) ==
    IF c.pc = "query"
      THEN [c EXCEPT !.form = formData(c.frame, c.intrinsics, cfg, tok)]
      ELSE c

\* The frames an application hands to localizeWithFrame, with intrinsics
\* that need not be of the same image.
Frames == {CameraOf(k) : k \in Readable}
SomeIntrinsics ==
    getCameraIntrinsics(ProjectionOf("camera"), [width |-> CameraOf("camera").width,
        height |-> CameraOf("camera").height, x |-> 0, y |-> 0])

LocalizeCall(s) ==
    /\ Free(s)
    /\ \E f \in Frames :
         LET c == [Call("localize") EXCEPT !.frame = f, !.intrinsics = SomeIntrinsics] IN
           Proceed(s, queryLocalizationBegin(
                        localizeWithFrameBegin(c, accessToken), config, accessToken))
    /\ UNCHANGED <<accessToken, world>>

\* ----------------------------------------------------------- WebxrController

\* private renderer/camera/scene/animationLoop/arButton/resizeHandler = null;
\* private isSessionActive = false
NewController ==
    [renderer |-> Null, camera |-> Null, scene |-> Null, animationLoop |-> Null,
     arButton |-> Null, resizeHandler |-> Null, isSessionActive |-> FALSE]

\* What surrounds the renderer built by one initialize(): its XR manager
\* (whether it holds a session, isPresenting, referenceSpace, the
\* sessionstart/sessionend listener pairs registered on it), the render
\* loops set on it, whether dispose() released it, the resize listeners of
\* its handler on window, whether its launch button is in the document, and
\* the framebuffer bound in its GL context (the session's base layer while
\* the render loop draws into the session; null otherwise).
Unbuilt ==
    [session |-> FALSE, isPresenting |-> FALSE, referenceSpace |-> FALSE,
     xrListeners |-> 0, animationLoops |-> 0, disposed |-> FALSE,
     resizeListeners |-> 0, attached |-> FALSE, framebuffer |-> "null"]

Containers == {Undefined, "container"}

\* initialize: the parent the button is appended to.
\* Priority: passed parameter > options.buttonContainer > overlayRoot
buttonParentOf(param, configured) ==
    IF param # Undefined THEN "appendChild:parameter"
    ELSE IF configured # Undefined THEN "appendChild:options.buttonContainer"
    ELSE "appendChild:overlayRoot"

\* initialize keeping the scene of the renderer built before
initializeFieldsOldScene(c, n) ==
    [c EXCEPT !.renderer = n, !.camera = n, !.animationLoop = n,
              !.arButton = n, !.resizeHandler = n,
              !.scene = IF n > 1 THEN n - 1 ELSE n]

\* initialize: the fields it stores once everything is built.
initializeFields(c, n) ==
    [c EXCEPT !.renderer = n, !.camera = n, !.scene = n, !.animationLoop = n,
              !.arButton = n, !.resizeHandler = n]

\* initialize registering its session listeners a second time
initializeEnvTwice(e) ==
    [e EXCEPT !.xrListeners = @ + 2, !.animationLoops = @ + 1,
              !.resizeListeners = @ + 1, !.attached = TRUE]

\* initialize: what it registers around the renderer it builds (the
\* sessionstart/sessionend listeners, setAnimationLoop, the resize listener,
\* the button appended to its parent).
initializeEnv(e) ==
    [e EXCEPT !.xrListeners = @ + 1, !.animationLoops = @ + 1,
              !.resizeListeners = @ + 1, !.attached = TRUE]

\* initialize without the guard on this.renderer
initializePathUnguarded(c, secure, glOk) ==
    IF ~secure THEN "insecure" ELSE IF ~glOk THEN "noContext" ELSE "build"

\* initialize without the secure-context check
initializePathAnyContext(c, secure, glOk) ==
    IF c.renderer # Null THEN "existing" ELSE IF ~glOk THEN "noContext" ELSE "build"

\* initialize, which has no await: the path a call takes.  glOk: whether
\* new THREE.WebGLRenderer gets a WebGL context (it throws otherwise).
initializePath(c, secure, glOk) ==
    IF c.renderer # Null THEN "existing"        \* return this.arButton
    ELSE IF ~secure THEN "insecure"
    ELSE IF ~glOk THEN "noContext"
    ELSE "build"

\* initialize: how the call ends on that path, n being the objects it builds.
initialize(c, path, parent, n) ==
    IF path = "existing" THEN ResolveHandle(Call("initialize"), c.arButton)
    ELSE IF path = "insecure" THEN Reject(Call("initialize"), ErrSecureContext)
    ELSE IF path = "noContext" THEN Reject(Call("initialize"), ErrWebGL)
    ELSE ResolveHandle(Emit(Emit(Call("initialize"), parent), "onARButtonCreated"), n)

Initialize ==
    /\ ret = NoRet
    /\ \E param \in Containers, configured \in Containers, glOk \in BOOLEAN :
         LET path == initializePath(ctl, isSecureContext, glOk)
             parent == buttonParentOf(param, configured)
         IN IF path = "build"
              THEN /\ built < MaxRenderers
                   /\ built' = built + 1
                   /\ ctl' = initializeFields(ctl, built + 1)
                   /\ env' = [env EXCEPT ![built + 1] = initializeEnv(@)]
                   /\ ret' = initialize(ctl, path, parent, built + 1)
              ELSE /\ ret' = initialize(ctl, path, parent, built + 1)
                   /\ UNCHANGED <<ctl, env, built>>
    /\ UNCHANGED <<accessToken, calls, given>>

\* dispose that leaves this.scene set
disposeFieldsKeepScene(c) ==
    [c EXCEPT !.renderer = Null, !.animationLoop = Null, !.camera = Null,
              !.arButton = Null]

\* dispose: the controller fields afterwards.
disposeFields(c) ==
    [c EXCEPT !.renderer = Null, !.animationLoop = Null, !.camera = Null,
              !.scene = Null, !.arButton = Null]

\* dispose: window.removeEventListener('resize', this.resizeHandler)
disposeResize(e, c) ==
    [n \in RendererIds |->
       IF c.resizeHandler = n THEN [e[n] EXCEPT !.resizeListeners = 0] ELSE e[n]]

\* dispose: this.renderer.dispose(), which also stops the renderer's loop
disposeRenderer(e, c) ==
    [n \in RendererIds |->
       IF c.renderer = n
         THEN [e[n] EXCEPT !.disposed = TRUE, !.animationLoops = 0] ELSE e[n]]

\* dispose: this.arButton.parentElement.removeChild(this.arButton)
disposeButton(e, c) ==
    [n \in RendererIds |->
       IF c.arButton = n THEN [e[n] EXCEPT !.attached = FALSE] ELSE e[n]]

\* dispose that removes the button without looking whether there is one
disposeThrowsUnguarded(c) == c.arButton = Null

\* dispose reaches every object through a null check: no statement of it
\* dereferences null.
disposeThrows(c) == FALSE

Dispose ==
    /\ ret = NoRet
    /\ IF disposeThrows(ctl)
         THEN /\ ret' = Throw(Call("dispose"), ErrTypeError)
              /\ UNCHANGED <<ctl, env>>
         ELSE /\ env' = disposeButton(disposeRenderer(disposeResize(env, ctl), ctl), ctl)
              /\ ctl' = disposeFields(ctl)
              /\ ret' = Return(Call("dispose"), Null)
    /\ UNCHANGED <<accessToken, calls, given, built>>

\* getScene / getCamera / getRenderer
getScene(c) ==
    IF c.scene = Null THEN Throw(Call("getScene"), ErrScene)
    ELSE Return(Call("getScene"), c.scene)

getCamera(c) ==
    IF c.camera = Null THEN Throw(Call("getCamera"), ErrCamera)
    ELSE Return(Call("getCamera"), c.camera)

getRenderer(c) ==
    IF c.renderer = Null THEN Throw(Call("getRenderer"), ErrRenderer)
    ELSE Return(Call("getRenderer"), c.renderer)

\* hasActiveSession that trusts the flag alone
hasActiveSessionFlagOnly(c, e) == c.isSessionActive

\* this.isSessionActive && this.renderer?.xr.isPresenting === true
hasActiveSession(c, e) ==
    c.isSessionActive /\ c.renderer # Null /\ e[c.renderer].isPresenting

Flag(b) == IF b THEN 1 ELSE 0

Accessor ==
    /\ ret = NoRet
    /\ \/ ret' = getScene(ctl)
       \/ ret' = getCamera(ctl)
       \/ ret' = getRenderer(ctl)
       \/ ret' = Return(Call("hasActiveSession"), Flag(hasActiveSession(ctl, env)))
    /\ UNCHANGED <<accessToken, calls, given, ctl, env, built>>

\* ---------------------------------------------------------------- captureFrame

\* captureFrame without the check on getSession()
captureFramePreconditionNoSession(c, e) ==
    IF c.renderer = Null \/ c.camera = Null THEN ErrNotInitialized
    ELSE IF ~e[c.renderer].referenceSpace THEN ErrNoReferenceSpace
    ELSE NoError

\* captureFrame before its promise: the three precondition checks.
captureFramePrecondition(c, e) ==
    IF c.renderer = Null \/ c.camera = Null THEN ErrNotInitialized
    ELSE IF ~e[c.renderer].session THEN ErrNoSession
    ELSE IF ~e[c.renderer].referenceSpace THEN ErrNoReferenceSpace
    ELSE NoError

\* captureFrame up to the frame callback it registers on the session.
captureFrameBegin(c, e) ==
    IF captureFramePrecondition(c, e) # NoError
      THEN Reject(Call("capture"), captureFramePrecondition(c, e))
      ELSE Emit([Call("capture") EXCEPT !.pc = "frame", !.renderer = c.renderer],
                "requestAnimationFrame")

\* finally: gl.bindFramebuffer(gl.FRAMEBUFFER, baseLayer.framebuffer)
captureFinally(c) == Emit(c, "bindBaseLayer")

\* The callback has run to its end (resolve, or catch: reject) or is at an await.
captureEnd(n) == IF Settled(n) THEN captureFinally(n) ELSE n

\* the read-back that keeps its framebuffer
getCameraTextureAsImageKeeps(c) ==
    Emit(Emit(c, "createFramebuffer"), "readPixels")

\* getCameraTextureAsImage up to its await: a framebuffer is created, the
\* texture read back through it, and the framebuffer deleted.
getCameraTextureAsImage(c) ==
    Emit(Emit(Emit(c, "createFramebuffer"), "readPixels"), "deleteFramebuffer")

\* The loop over the views, up to the read-back of the first view that has a
\* camera, a camera image and a size, which it then awaits the encoding of.
\* The views after it are looked at when the loop reaches them.
RECURSIVE viewLoop(_, _)
viewLoop(c, views) ==
    IF views = <<>> THEN Resolve([c EXCEPT !.views = 0], NullResult)
    ELSE IF Head(views) \notin Readable THEN viewLoop(c, Tail(views))
    ELSE getCameraTextureAsImage(
             [c EXCEPT !.pc = "encode", !.views = Len(views) - 1, !.view = Head(views)])

\* The frame callback up to its first await.
frameCallback(c, pose) ==
    IF ~pose.found THEN captureEnd(Resolve(c, NullResult))
    ELSE captureEnd(viewLoop(c, pose.views))

\* The callback after the encoding of a view gave a blob of `size` bytes:
\* zero bytes is no frame and the loop goes on; otherwise localizeWithFrame,
\* whose exception the catch turns into the rejection of the capture.
BlobSizes == {0, 1}

\* canvas.toBlob calls back with the encoding, of `size` bytes
toBlob(c, size) == Emit(c, IF size = 0 THEN "emptyBlob" ELSE "blob")

\* What the callback has in hand after the encoding of the view it read
\* back: frameData {blob, width, height} and the intrinsics of that view,
\* over the viewport {width, height, x: 0, y: 0}.
\* the image reported with its width and height exchanged
frameDataTransposed(c) ==
    [width |-> CameraOf(c.view).height, height |-> CameraOf(c.view).width]

frameData(c) == CameraOf(c.view)
\* intrinsics taken from the first camera, whichever view was read back
intrinsicsOfFirstCamera(c) ==
    getCameraIntrinsics(ProjectionOf("camera"),
        [width |-> CameraOf("camera").width, height |-> CameraOf("camera").height,
         x |-> 0, y |-> 0])

intrinsicsOf(c) ==
    getCameraIntrinsics(ProjectionOf(c.view),
        [width |-> CameraOf(c.view).width, height |-> CameraOf(c.view).height,
         x |-> 0, y |-> 0])

inHand(c) == [c EXCEPT !.frame = frameData(c), !.intrinsics = intrinsicsOf(c)]

\* the callback sending whatever the encoding gave
encodeContinueAnySize(c, size, rest, tok) ==
    captureEnd(localizeWithFrameBegin(c, tok))

\* the callback going on to the views that remain, whatever it has in hand
encodeContinueLastView(c, size, rest, tok) ==
    IF size = 0 \/ c.views > 0 THEN captureEnd(viewLoop(c, rest))
    ELSE captureEnd(localizeWithFrameBegin(c, tok))

\* the callback turning an exception of localizeWithFrame into "no result"
encodeContinueSwallows(c, size, rest, tok) ==
    IF size = 0 THEN captureEnd(viewLoop(c, rest))
    ELSE IF Rejected(localizeWithFrameBegin(c, tok))
      THEN captureEnd(Resolve(c, NullResult))
    ELSE captureEnd(localizeWithFrameBegin(c, tok))

encodeContinue(c, size, rest, tok) ==
    IF size = 0 THEN captureEnd(viewLoop(c, rest))
    ELSE captureEnd(localizeWithFrameBegin(c, tok))

\* The framebuffer bound in the GL context of the capture's renderer once
\* its callback has run from c to n: getCameraTextureAsImage leaves null
\* bound after each read-back, and the finally binds the base layer's.
framebufferAfter(e, c, n) ==
    IF n.op # "capture" THEN e
    ELSE IF Settled(n)
      THEN [e EXCEPT ![n.renderer].framebuffer = "baseLayer"]
    ELSE IF Count(n.trace, "readPixels") > Count(c.trace, "readPixels")
      THEN [e EXCEPT ![n.renderer].framebuffer = "null"]
    ELSE e

\* The call of slot s runs on from one await to the next, or to its end.
Runs(s, n) ==
    /\ Proceed(s, n)
    /\ env' = framebufferAfter(env, calls[s], n)
    /\ UNCHANGED <<accessToken, given, ctl, built>>

CaptureFrameCall(s) ==
    /\ Free(s)
    /\ Proceed(s, captureFrameBegin(ctl, env))
    /\ UNCHANGED <<accessToken, world>>

\* The session runs a frame callback registered on it.
FrameCallback(s) ==
    /\ ret = NoRet
    /\ calls[s].pc = "frame"
    /\ \E pose \in ViewerPoses : Runs(s, frameCallback(calls[s], pose))

EncodeSettle(s) ==
    /\ ret = NoRet
    /\ calls[s].pc = "encode"
    /\ \E size \in BlobSizes, rest \in {v \in ViewLists : Len(v) = calls[s].views} :
         Runs(s, queryLocalizationBegin(
                   encodeContinue(inHand(toBlob(calls[s], size)), size, rest, accessToken),
                   config, accessToken))

\* The localization POST of a localizeWithFrame or captureFrame call returns.
QuerySettle(s) ==
    /\ ret = NoRet
    /\ calls[s].pc = "query"
    /\ \E r \in QueryResponses :
         LET n == queryLocalizationContinue([calls[s] EXCEPT !.resp = r], r) IN
           Runs(s, IF n.op = "capture" THEN captureEnd(n) ELSE n)

\* The map-detail GET returns.
DetailsSettle(s) ==
    /\ ret = NoRet
    /\ calls[s].pc = "details"
    /\ \E d \in DetailResponses :
         LET n == fetchMapDetailsContinue([calls[s] EXCEPT !.dresp = d], d) IN
           Runs(s, IF n.op = "capture" THEN captureEnd(n) ELSE n)

\* The caller takes the outcome of the last step.
Taken ==
    /\ ret # NoRet
    /\ ret' = NoRet
    /\ UNCHANGED <<accessToken, calls, world>>

\* ------------------------------------------------------ the rendering runtime

Repeat(e, k) == [i \in 1..k |-> e]
Signal(op, n, callbacks) ==
    [Call(op) EXCEPT !.pc = "done", !.out = "dispatched", !.handle = n,
                     !.trace = callbacks]
NoSessionAnywhere == \A n \in RendererIds : ~env[n].session

\* The frame callbacks registered on the session of renderer n never run
\* once it has ended: their captures stay pending.
dropFrameCallbacks(cs, n) ==
    [s \in Slots |->
       IF cs[s].pc = "frame" /\ cs[s].renderer = n
         THEN [cs[s] EXCEPT !.pc = "never"] ELSE cs[s]]

\* The launch button of renderer n is pressed and the device grants a
\* session (one immersive session at a time): the XR manager of n holds it
\* and is not yet presenting.
XrSetSession(n) ==
    /\ ret = NoRet
    /\ n <= built /\ env[n].attached
    /\ NoSessionAnywhere
    /\ env' = [env EXCEPT ![n].session = TRUE]
    /\ UNCHANGED <<accessToken, calls, given, ctl, built, ret>>

\* the 'sessionstart' listener of initialize
onXrSessionStart(c) == [c EXCEPT !.isSessionActive = TRUE]

\* the 'sessionend' listener of initialize
onXrSessionEnd(c) == [c EXCEPT !.isSessionActive = FALSE]

\* The XR manager of n has its reference space, presents and dispatches
\* 'sessionstart' to the listeners registered on it.
XrSessionStart(n) ==
    /\ ret = NoRet
    /\ env[n].session /\ ~env[n].isPresenting
    /\ env' = [env EXCEPT ![n].isPresenting = TRUE, ![n].referenceSpace = TRUE,
                          ![n].framebuffer = "baseLayer"]
    /\ ctl' = IF env[n].xrListeners > 0 THEN onXrSessionStart(ctl) ELSE ctl
    /\ ret' = Signal("sessionstart", n, Repeat("onSessionStart", env[n].xrListeners))
    /\ UNCHANGED <<accessToken, calls, given, built>>

\* The session of n ends: the XR manager drops it, stops presenting and
\* dispatches 'sessionend'.
XrSessionEnd(n) ==
    /\ ret = NoRet
    /\ env[n].session
    /\ env' = [env EXCEPT ![n].session = FALSE, ![n].isPresenting = FALSE,
                          ![n].framebuffer = "null"]
    /\ ctl' = IF env[n].xrListeners > 0 THEN onXrSessionEnd(ctl) ELSE ctl
    /\ calls' = dropFrameCallbacks(calls, n)
    /\ ret' = Signal("sessionend", n, Repeat("onSessionEnd", env[n].xrListeners))
    /\ UNCHANGED <<accessToken, given, built>>

\* The render loop of renderer n draws a frame of its session, into the
\* framebuffer that is bound (the renderer believes the base layer's still
\* is and does not bind it again).
RenderFrame(n) ==
    /\ ret = NoRet
    /\ env[n].isPresenting /\ env[n].animationLoops > 0
    /\ ret' = Signal("renderFrame", n, <<env[n].framebuffer>>)
    /\ UNCHANGED <<accessToken, calls, world>>

\* The application lets go of a capture that stays pending.
Forget(s) ==
    /\ ret = NoRet
    /\ calls[s].pc = "never"
    /\ calls' = [calls EXCEPT ![s] = Idle]
    /\ UNCHANGED <<accessToken, world, ret>>

\* ------------------------------------------------------------- specifications

Init ==
    /\ accessToken = NoToken
    /\ calls = [s \in Slots |-> Idle]
    /\ isSecureContext \in BOOLEAN
    /\ ctl = NewController
    /\ env = [n \in RendererIds |-> Unbuilt]
    /\ built = 0
    /\ ret = NoRet
    /\ config \in Configs
    /\ sample = NoSample

\* The client, used through slots S.
NextClient(S) ==
    \/ \E s \in S :
          \/ AuthorizeCall(s)
          \/ AuthorizeSettle(s)
          \/ LocalizeCall(s)
          \/ QuerySettle(s)
          \/ DetailsSettle(s)
    \/ Taken

\* The life of the controller and of the sessions of its renderers.
NextController ==
    \/ Initialize
    \/ Dispose
    \/ Accessor
    \/ \E n \in RendererIds :
          XrSetSession(n) \/ XrSessionStart(n) \/ XrSessionEnd(n) \/ RenderFrame(n)
    \/ Taken

\* The capture pipeline, used through slots S.
NextCapture(S) ==
    \E s \in S :
       \/ CaptureFrameCall(s)
       \/ FrameCallback(s)
       \/ EncodeSettle(s)
       \/ Forget(s)

Next == NextClient(Slots) \/ NextController \/ NextCapture(Slots)
NextSerial == NextClient(SerialSlots) \/ NextController \/ NextCapture(SerialSlots)

\* Everything, with up to MaxCalls calls suspended at one time.
Spec == Init /\ [][Next]_vars
\* Everything, the application awaiting each call before it makes the next
\* (up to SerialCalls calls suspended at one time).
SpecSerial == Init /\ [][NextSerial]_vars
\* The same, where a live session goes on running its frame callbacks, every
\* encoding and every network request completes, and the caller takes each
\* outcome.
FairSerial ==
    /\ \A s \in SerialSlots :
          /\ SF_vars(FrameCallback(s)) /\ SF_vars(EncodeSettle(s))
          /\ SF_vars(QuerySettle(s)) /\ SF_vars(DetailsSettle(s))
    /\ WF_vars(Taken)
SpecSerialFair == SpecSerial /\ FairSerial
\* Captures made without waiting for one another (up to MaxCalls in flight)
\* during one session of a controller that is initialized and never
\* disposed, by a client that authorizes between them.
NextCaptures ==
    \/ \E s \in SerialSlots : AuthorizeCall(s) \/ AuthorizeSettle(s)
    \/ \E s \in Slots :
          \/ CaptureFrameCall(s)
          \/ FrameCallback(s)
          \/ EncodeSettle(s)
          \/ QuerySettle(s)
          \/ DetailsSettle(s)
    \/ Initialize
    \/ \E n \in RendererIds : XrSetSession(n) \/ XrSessionStart(n)
    \/ Taken
SpecCaptures == Init /\ [][NextCaptures]_vars
\* The application uses the client alone.
SpecClient == Init /\ [][NextClient(Slots)]_vars
\* The application uses the controller without capturing.
SpecController == Init /\ [][NextController]_vars

\* ------------------------------------------------- the intrinsics alone
\* The elements of a projection matrix and the sizes of a camera image
\* (whole elements and even sizes, for which the halves are exact).
Entries == -1..MaxEntry
Sizes == {2 * k : k \in 1..MaxHalf}

\* captureFrame derives the intrinsics of a view from its projection matrix
\* and the size of the image read from it, with a viewport at the origin.
IntrinsicsOfView ==
    /\ sample = NoSample
    /\ \E p0, p5, p8, p9 \in Entries, w, h \in Sizes :
         sample' = [fn |-> "getCameraIntrinsics",
                    p |-> Matrix(p0, p5, p8, p9), width |-> w, height |-> h,
                    out |-> getCameraIntrinsics(Matrix(p0, p5, p8, p9),
                              [width |-> w, height |-> h, x |-> 0, y |-> 0])]
    /\ UNCHANGED <<accessToken, calls, isSecureContext, config, ctl, env, built, ret>>

SpecIntrinsics == Init /\ [][IntrinsicsOfView]_vars

\* ------------------------------------------------------- the flip alone
\* A typed array is a function on 0..length-1.
Length(a) == Cardinality(DOMAIN a)
Zeros(n) == [i \in 0..(n - 1) |-> 0]

\* TypedArray.prototype.subarray and .set
subarray(a, begin, end) == [i \in 0..(end - begin - 1) |-> a[begin + i]]
set(target, source, offset) ==
    [i \in DOMAIN target |->
        IF offset <= i /\ i < offset + Length(source)
          THEN source[i - offset] ELSE target[i]]

\* The loop over the rows of the read-back buffer, from row on.
RECURSIVE flipRows(_, _, _, _, _)
flipRows(pixelBuffer, flippedData, row, width, height) ==
    IF row >= height THEN flippedData
    ELSE LET sourceStart == row * width * 4
             destStart == (height - row - 1) * width * 4
         IN flipRows(pixelBuffer,
                     set(flippedData,
                         subarray(pixelBuffer, sourceStart, sourceStart + width * 4),
                         destStart),
                     row + 1, width, height)

\* the buffer turned end for end
flipReversed(pixelBuffer, width, height) ==
    [i \in DOMAIN pixelBuffer |-> pixelBuffer[Length(pixelBuffer) - 1 - i]]

\* The flip of getCameraTextureAsImage: flippedData starts as zeros.
flip(pixelBuffer, width, height) ==
    flipRows(pixelBuffer, Zeros(Length(pixelBuffer)), 0, width, height)

\* RGBA buffers of width x height pixels whose bytes all differ.
Steps == {1, 7, 37}
PixelBuffer(width, height, base, step) ==
    [i \in 0..(width * height * 4 - 1) |-> (base + i * step) % 256]

\* A buffer read back from the camera texture is flipped, and the flip is
\* applied to its own result.
FlipReadBack ==
    /\ sample = NoSample
    /\ \E w \in 1..MaxWidth, h \in 1..MaxHeight, base \in 0..MaxBase, step \in Steps :
         LET buf == PixelBuffer(w, h, base, step) IN
           sample' = [fn |-> "flip", width |-> w, height |-> h, buf |-> buf,
                      once |-> flip(buf, w, h),
                      twice |-> flip(flip(buf, w, h), w, h)]
    /\ UNCHANGED <<accessToken, calls, isSecureContext, config, ctl, env, built, ret>>

SpecFlip == Init /\ [][FlipReadBack]_vars

\* ----------------------------------------------------------------- the claims

Initialized == ctl.renderer # Null /\ ctl.camera # Null

\* A step in which captureFrame is called: it registers a frame callback, or
\* it rejects at once.
CaptureScheduled == \E s \in Slots : calls[s] = Idle /\ calls'[s].op = "capture"
CaptureRefused   == ret = NoRet /\ calls' = calls /\ ret'.op = "capture"

\* What C1 asks of a captureFrame call: it rejects with the
\* no-active-session error, registers no frame callback and has emitted no
\* notification and issued no request.
RefusesForNoSession ==
    /\ ~CaptureScheduled
    /\ CaptureRefused =>
         Rejected(ret') /\ ret'.err = ErrNoSession /\ ret'.trace = <<>>

\* C1 as stated: whenever the controller is initialized and
\* hasActiveSession() is false, captureFrame() rejects with the
\* no-active-session error, schedules no frame callback, emits no
\* notification and issues no request.
C1_WithoutActiveSession ==
    [][(Initialized /\ ~hasActiveSession(ctl, env)) => RefusesForNoSession]_vars

\* C1 as amended: whenever the controller is initialized and the XR manager
\* of its renderer holds no session (none granted yet, or the session has
\* ended), captureFrame() rejects with the no-active-session error,
\* schedules no frame callback, emits no notification and issues no request.
C1_WithoutSession ==
    [][(Initialized /\ ~env[ctl.renderer].session) => RefusesForNoSession]_vars

\* C1 witness: an initialized controller whose session has ended (it has a
\* reference space from it) has just refused a capture for want of a session.
C1_Witness ==
    /\ ret.op = "capture" /\ Rejected(ret) /\ ret.err = ErrNoSession
    /\ Initialized /\ env[ctl.renderer].referenceSpace

\* C2: while the client holds no token (authorize has never succeeded), no
\* localizeWithFrame call is under way, and a localizeWithFrame call that
\* ended has failed with the missing-token error, having emitted no
\* notification and issued no request.
C2_MissingToken ==
    accessToken = NoToken =>
        /\ \A s \in Slots : calls[s].op # "localize"
        /\ ret.op = "localize" =>
             Rejected(ret) /\ ret.err = ErrMissingToken /\ ret.trace = <<>>

\* C2 witness: localizeWithFrame has just failed for the missing token.
C2_Witness ==
    ret.op = "localize" /\ Rejected(ret) /\ ret.err = ErrMissingToken
      /\ accessToken = NoToken

GotQueryResponse(c) == Settled(c) /\ c.op \in {"localize", "capture"} /\ c.resp.ok

\* C3: a localizeWithFrame or captureFrame call whose localization response
\* had poseFound=false resolved to null, and issued no map-detail request.
C3_NoPoseIsNull ==
    (GotQueryResponse(ret) /\ ~ret.resp.data.poseFound) =>
        Resolved(ret) /\ ret.val = NullResult /\ ~Has(ret.trace, "mapGET")

\* C3 witness: a captureFrame call got poseFound=false with a map identifier.
C3_Witness ==
    /\ GotQueryResponse(ret) /\ ret.op = "capture"
    /\ ~ret.resp.data.poseFound /\ ret.resp.data.mapIds = <<"m1">>

\* C4: a call whose localization response had poseFound=true and a non-empty
\* mapIds, and whose map-detail fetch failed, resolved with a result whose
\* localizeData is the response and which has no mapDetails, and the failure
\* went to the error notification.
C4_DetailFailureKeepsPose ==
    (GotQueryResponse(ret) /\ ret.resp.data.poseFound
       /\ Len(ret.resp.data.mapIds) > 0 /\ ret.dresp = "fail") =>
        /\ Resolved(ret) /\ ~ret.val.isNull
        /\ ret.val.localizeData = ret.resp.data
        /\ ret.val.mapDetails = NoDetails
        /\ Has(ret.trace, "onError")

\* C4 witness: localizeWithFrame resolved after its map-detail fetch failed.
C4_Witness ==
    /\ GotQueryResponse(ret) /\ ret.op = "localize" /\ ret.resp.data.poseFound
    /\ ret.resp.data.mapIds = <<"m2", "m1">> /\ ret.dresp = "fail"

InitializeReturns == ret = NoRet /\ ret'.op = "initialize"

\* C5: initialize() on an initialized controller returns the launch button
\* the building call stored and returned, invokes no callback and changes
\* nothing: no renderer, camera or scene is built, no listener added and no
\* render loop set, whatever container is passed.
C5_InitializeTwice ==
    [][InitializeReturns =>
         /\ ctl.renderer # Null =>
              /\ Resolved(ret') /\ ret'.handle = ctl.arButton /\ ret'.trace = <<>>
              /\ UNCHANGED <<ctl, env, built, calls, accessToken>>
         /\ (ctl.renderer = Null /\ Resolved(ret')) => ret'.handle = ctl'.arButton
      ]_vars

\* C5 witness: initialize has just returned the existing button.
C5_Witness ==
    /\ ret.op = "initialize" /\ Resolved(ret) /\ ret.trace = <<>>
    /\ ret.handle # Null /\ ret.handle = ctl.arButton

\* dispose as one function of the controller and what surrounds it
disposedEnv(e, c) == disposeButton(disposeRenderer(disposeResize(e, c), c), c)

\* C6: dispose() never throws, in any state, and leaves a state that a
\* second dispose() does not change.
C6_DisposeTwice ==
    [][(ret = NoRet /\ ret'.op = "dispose") =>
         /\ ret'.out = "returned"
         /\ ~disposeThrows(ctl')
         /\ disposeFields(ctl') = ctl'
         /\ disposedEnv(env', ctl') = env'
      ]_vars

\* C6 witness: dispose has just returned on a controller whose renderer an
\* earlier dispose released.
C6_Witness ==
    /\ ret.op = "dispose" /\ ret.out = "returned"
    /\ built = 1 /\ env[1].disposed /\ ~env[1].attached
    /\ ctl.renderer = Null /\ ctl.resizeHandler = 1

\* The controller is initialized from a successful initialize() to the next
\* dispose(): the renderer built last has not been released.
Live == built > 0 /\ ~env[built].disposed

AccessorResult(r, op, e) ==
    r.op = op =>
        IF Live THEN r.out = "returned" /\ r.handle = built
        ELSE r.out = "threw" /\ r.err = e

\* C7: getScene(), getCamera() and getRenderer() throw their own error, each
\* different from the others, exactly when the controller is not initialized
\* (never, after a failed initialize(), after dispose()); otherwise each
\* returns the handle the last initialize() built.
C7_Accessors ==
    /\ AccessorResult(ret, "getScene", ErrScene)
    /\ AccessorResult(ret, "getCamera", ErrCamera)
    /\ AccessorResult(ret, "getRenderer", ErrRenderer)
    /\ ErrScene # ErrCamera /\ ErrCamera # ErrRenderer /\ ErrScene # ErrRenderer

\* C7 witness: getScene has just thrown on a disposed controller.
C7_Witness ==
    ret.op = "getScene" /\ ret.out = "threw" /\ built > 0 /\ env[built].disposed

\* C8: outside a secure context the controller stays as constructed
\* (nothing stored, no listener, no render loop, no button) and every
\* initialize() fails with the secure-context error, onARButtonCreated not
\* invoked.
C8_InsecureContext ==
    ~isSecureContext =>
        /\ ctl = NewController /\ built = 0
        /\ \A n \in RendererIds : env[n] = Unbuilt
        /\ ret.op = "initialize" =>
             Rejected(ret) /\ ret.err = ErrSecureContext /\ ret.trace = <<>>

\* C8 witness: initialize has just failed for the insecure context.
C8_Witness ==
    ret.op = "initialize" /\ Rejected(ret) /\ ret.err = ErrSecureContext

AuthorizeSettles == ret = NoRet /\ ret'.op = "authorize"
CarriesToken(v) == ~Falsy(v)

\* C9 as stated: an authorize() whose response carries a token under
\* neither `token` nor `access_token` fails with the authorization error,
\* stores nothing and does not notify; one whose response carries a token
\* stores it, notifies with it and resolves with it.
C9_AuthorizeToken ==
    [][(AuthorizeSettles /\ ret'.aresp.ok) =>
         IF ~CarriesToken(ret'.aresp.data.token)
              /\ ~CarriesToken(ret'.aresp.data.access_token)
           THEN /\ Rejected(ret') /\ ret'.err = ErrNoTokenReturned
                /\ accessToken' = accessToken
                /\ ~Has(ret'.trace, "onAuthorize")
           ELSE /\ Resolved(ret')
                /\ ret'.token \in {ret'.aresp.data.token, ret'.aresp.data.access_token}
                /\ CarriesToken(ret'.token)
                /\ accessToken' = ret'.token
                /\ Count(ret'.trace, "onAuthorize") = 1
      ]_vars

\* C10: an authorize() whose request failed in transport rejected with that
\* failure and invoked the error notification exactly once.
C10_AuthorizeTransport ==
    (ret.op = "authorize" /\ Settled(ret) /\ ~ret.aresp.ok) =>
        /\ Rejected(ret) /\ ret.err = ErrTransport
        /\ Count(ret.trace, "onError") = 1

\* C10 witness: authorize has just rejected with the transport failure.
C10_Witness ==
    ret.op = "authorize" /\ Rejected(ret) /\ ret.err = ErrTransport
      /\ ret.trace = <<"authPOST", "onError">>

\* The localization POST of call c was issued and failed in transport.
QueryFailed(c) ==
    /\ Settled(c) /\ c.op \in {"localize", "capture"}
    /\ Has(c.trace, "queryPOST") /\ ~c.resp.ok

\* C11: a localizeWithFrame or captureFrame call whose localization request
\* failed in transport did not reject: it resolved with null, the error
\* notification was invoked (once) and no map-detail request was made.
C11_QueryFailureIsNull ==
    QueryFailed(ret) =>
        /\ Resolved(ret) /\ ret.val = NullResult
        /\ Count(ret.trace, "onError") = 1
        /\ ~Has(ret.trace, "mapGET")

\* C11 witness: a captureFrame call resolved after its localization request
\* failed in transport.
C11_Witness == QueryFailed(ret) /\ ret.op = "capture" /\ Resolved(ret)

\* The step handed its caller an error: a rejected promise or an exception.
Failed(c) == Rejected(c) \/ (c.pc = "done" /\ c.out = "threw")

\* C12 as stated: every error a client or controller operation produces,
\* the precondition errors included, has invoked the error notification.
C12_EveryErrorNotified == Failed(ret) => Has(ret.trace, "onError")

\* C13: hasActiveSession() returns true only when the active flag is set
\* and the XR manager of the current renderer is presenting; it returns
\* false whenever the controller is not initialized (never, or disposed).
C13_ActiveSession ==
    ret.op = "hasActiveSession" =>
        /\ ret.handle = Flag(TRUE) =>
              /\ ctl.isSessionActive
              /\ Live /\ ctl.renderer = built /\ env[built].isPresenting
        /\ ~Live => ret.handle = Flag(FALSE)

\* C13 witness: hasActiveSession() has just returned false on a disposed
\* controller whose flag is still set and whose old renderer still presents.
C13_Witness ==
    /\ ret.op = "hasActiveSession" /\ ret.handle = Flag(FALSE)
    /\ ctl.isSessionActive /\ ctl.renderer = Null
    /\ built > 0 /\ env[built].isPresenting

\* The XR manager of renderer n dispatches 'sessionstart' or 'sessionend'.
SessionSignal(n) ==
    ret = NoRet /\ ret'.op \in {"sessionstart", "sessionend"} /\ ret'.handle = n

\* C14 as stated: once dispose() has released renderer n, a session-start
\* or session-end signal of its XR manager neither changes the active flag
\* nor invokes onSessionStart/onSessionEnd, whether or not the controller
\* has been initialized again.
C14_DisposeUnregisters ==
    [][\A n \in RendererIds :
         (SessionSignal(n) /\ env[n].disposed) =>
             /\ ctl'.isSessionActive = ctl.isSessionActive
             /\ ret'.trace = <<>>
      ]_vars

\* The frame callback of capture c ran to its end without a usable image:
\* the pose was unavailable, or every view either had no camera, texture or
\* size, or was read back and encoded to zero bytes.
NoUsableImage(c) ==
    /\ c.op = "capture" /\ Settled(c) /\ Has(c.trace, "requestAnimationFrame")
    /\ Count(c.trace, "readPixels") = Count(c.trace, "emptyBlob")

ClientEvents ==
    {"authPOST", "queryPOST", "mapGET", "onAuthorize", "onFrameCaptured",
     "onCameraIntrinsics", "onPoseResult", "onError"}

\* C15: a capture whose frame callback found no usable image resolved with
\* null, issued no network request and emitted no client notification.
C15_NoUsableImageIsNull ==
    NoUsableImage(ret) =>
        /\ Resolved(ret) /\ ret.val = NullResult
        /\ \A e \in ClientEvents : ~Has(ret.trace, e)

\* C15 witness: a capture resolved after both its views were read back and
\* encoded to zero bytes.
C15_Witness == NoUsableImage(ret) /\ Count(ret.trace, "emptyBlob") = 2

\* Event e comes somewhere before event f in the trace.
Before(trace, e, f) ==
    \E i, j \in 1..Len(trace) : i < j /\ trace[i] = e /\ trace[j] = f

\* What localizeWithFrame resolves with, given what its POST and (if made)
\* its map-detail GET came back with.
localizeWithFrameResult(r, d) ==
    LET q == queryLocalizationContinue([Call("localize") EXCEPT !.resp = r], r)
    IN IF Settled(q) THEN q.val
       ELSE fetchMapDetailsContinue([q EXCEPT !.dresp = d], d).val

\* Capture c has settled after localizeWithFrame was given a view's image.
SentView(c) ==
    c.op = "capture" /\ Settled(c) /\ Has(c.trace, "onFrameCaptured")

\* C16: in a capture every view read back before the one sent was encoded
\* to zero bytes, the one sent is the first with a non-empty encoding, no
\* view is read back after it, one localization request is made, and the
\* capture resolves with what localizeWithFrame returns for the responses
\* it got, null included.
C16_FirstUsableView ==
    (ret.op = "capture" /\ Settled(ret)) =>
        /\ Count(ret.trace, "blob") <= 1
        /\ ~Before(ret.trace, "blob", "readPixels")
        /\ Count(ret.trace, "readPixels")
              = Count(ret.trace, "emptyBlob") + Count(ret.trace, "blob")
        /\ Has(ret.trace, "onFrameCaptured") => Before(ret.trace, "blob", "onFrameCaptured")
        /\ SentView(ret) =>
              /\ Count(ret.trace, "queryPOST") = 1
              /\ Resolved(ret)
              /\ ret.val = localizeWithFrameResult(ret.resp, ret.dresp)

\* C16 witness: a capture resolved with the null localizeWithFrame returned
\* for its second view, the first having encoded to zero bytes.
C16_Witness ==
    /\ SentView(ret) /\ Has(ret.trace, "emptyBlob")
    /\ ret.resp.ok /\ ~ret.resp.data.poseFound /\ ret.val = NullResult

\* The last event of a trace.
LastEvent(trace) == IF trace = <<>> THEN "none" ELSE trace[Len(trace)]

\* C17 as stated: the frame callback of a capture ends, on every path, by
\* binding the base layer's framebuffer again, and every frame the render
\* loop draws finds the base layer's framebuffer bound: the binding is
\* restored before the next frame runs.
C17_FramebufferRestored ==
    /\ (ret.op = "capture" /\ Settled(ret) /\ Has(ret.trace, "requestAnimationFrame"))
          => LastEvent(ret.trace) = "bindBaseLayer"
    /\ ret.op = "renderFrame" => ret.trace = <<"baseLayer">>

\* The capture of slot s gets the non-empty encoding of a view while the
\* client holds no token.
EncodedWithoutToken(s) ==
    /\ ret = NoRet /\ accessToken = NoToken
    /\ calls[s].op = "capture" /\ calls[s].pc = "encode"
    /\ calls'[s] # calls[s]
    /\ Has(ret'.trace, "blob") \/ Has(calls'[s].trace, "blob")

CapturesInFlight == {s \in Slots : calls[s].op = "capture"}

\* C19 as stated: while a captureFrame() call has not settled, a second
\* call schedules no second frame callback: at most one capture of the
\* controller is in flight.
C19_OneCaptureInFlight == Cardinality(CapturesInFlight) <= 1

\* C20 as stated: every captureFrame() call that passed its preconditions
\* eventually resolves or rejects, also when the session ends or the
\* controller is disposed before its frame callback has run.
C20_CaptureSettles ==
    \A s \in SerialSlots :
        (calls[s].op = "capture") ~> (ret.op = "capture" /\ Settled(ret))

\* The call of slot s issues its localization request in this step.
IssuesQuery(s) ==
    ~Has(calls[s].trace, "queryPOST") /\ Has(calls'[s].trace, "queryPOST")

\* C21: every localization request carries the configured code under
\* mapCode and no mapSetCode when the map type is `map`, under mapSetCode
\* and no mapCode when it is `map-set`; it carries isRightHanded=true and
\* is sent under the token the client holds when it is issued.
C21_RequestFields ==
    [][\A s \in Slots :
         IssuesQuery(s) =>
             LET f == calls'[s].form IN
               /\ f.isRightHanded = "true"
               /\ config.mapType = "map" =>
                     f.mapCode = config.code /\ f.mapSetCode = Undefined
               /\ config.mapType = "map-set" =>
                     f.mapSetCode = config.code /\ f.mapCode = Undefined
               /\ (f.mapCode = Undefined) # (f.mapSetCode = Undefined)
               /\ f.authorization = accessToken /\ accessToken # NoToken
      ]_vars

\* C21 witness: a capture of a client configured with a map set is
\* suspended at its localization request.
C21_Witness ==
    \E s \in Slots :
        /\ calls[s].op = "capture" /\ calls[s].pc = "query"
        /\ config.mapType = "map-set" /\ calls[s].form.mapSetCode = "CODE"

\* The records of the calls in flight and of the call that just returned.
Records == {calls[s] : s \in Slots} \cup {ret}

\* The capture of record c has sent its localization request.
CaptureSent(c) == c.op = "capture" /\ Has(c.trace, "queryPOST")

\* C22: the image and the intrinsics of one request come from one view of
\* one frame callback: the request's width and height are those of the
\* intrinsics and of the camera image of the view the capture read back,
\* and its focal lengths and principal point are those of that view's
\* projection, also while several captures are in flight.
C22_ImageMatchesIntrinsics ==
    \A c \in Records :
        CaptureSent(c) =>
            /\ c.form.width = c.intrinsics.width
            /\ c.form.height = c.intrinsics.height
            /\ c.form.width = CameraOf(c.view).width
            /\ c.form.height = CameraOf(c.view).height
            /\ c.form.fx = (CameraOf(c.view).width \div 2) * ProjectionOf(c.view)[0]
            /\ c.form.fy = (CameraOf(c.view).height \div 2) * ProjectionOf(c.view)[5]
            /\ c.form.px = ((1 - ProjectionOf(c.view)[8]) * CameraOf(c.view).width) \div 2
            /\ c.form.py = ((1 - ProjectionOf(c.view)[9]) * CameraOf(c.view).height) \div 2

\* C22 witness: two captures are suspended at their requests, one sent
\* from each camera.
C22_Witness ==
    \E s, t \in Slots :
        /\ CaptureSent(calls[s]) /\ calls[s].view = "camera"
        /\ CaptureSent(calls[t]) /\ calls[t].view = "camera2"
        /\ calls[s].form.width # calls[t].form.width

\* The capture of record c returned after a usable view was sent and the
\* service answered that the pose was found.
CapturedPose(c) ==
    /\ c.op = "capture" /\ Settled(c)
    /\ Has(c.trace, "blob")
    /\ c.resp.ok /\ c.resp.data.poseFound

\* C23: a captureFrame() that gets a viewer pose with a usable view and a
\* poseFound=true response has issued exactly one localization POST, with
\* the width and height of that view and the intrinsics derived from its
\* projection, and resolves with a result whose localizeData is the
\* response.
C23_CaptureEndToEnd ==
    CapturedPose(ret) =>
        LET cam == CameraOf(ret.view)
            k == getCameraIntrinsics(ProjectionOf(ret.view),
                   [width |-> cam.width, height |-> cam.height, x |-> 0, y |-> 0])
        IN /\ Count(ret.trace, "queryPOST") = 1
           /\ ret.view \in Readable
           /\ ret.form.width = cam.width /\ ret.form.height = cam.height
           /\ ret.form.fx = k.fx /\ ret.form.fy = k.fy
           /\ ret.form.px = k.px /\ ret.form.py = k.py
           /\ Resolved(ret) /\ ~ret.val.isNull
           /\ ret.val.localizeData = ret.resp.data

\* C23 witness: with a token stored, the controller initialized and its
\* session started, a capture of the second camera returns the pose.
C23_Witness ==
    /\ CapturedPose(ret) /\ Resolved(ret)
    /\ accessToken # NoToken /\ Initialized /\ ctl.isSessionActive
    /\ ret.view = "camera2" /\ Count(ret.trace, "blob") = 1
    /\ ret.val.localizeData = ret.resp.data

\* C24: nothing is retried.  An authorize() issues exactly one auth
\* request; a localizeWithFrame() or captureFrame() issues at most one
\* localization request and at most one map-detail request, and the
\* map-detail request only after a poseFound=true response that lists at
\* least one map id, keyed by the first id of the list.
C24_NoRetries ==
    \A c \in Records :
        /\ c.op = "authorize" =>
              /\ Count(c.trace, "authPOST") = 1
              /\ ~Has(c.trace, "queryPOST") /\ ~Has(c.trace, "mapGET")
        /\ c.op \in {"localize", "capture"} =>
              /\ ~Has(c.trace, "authPOST")
              /\ Count(c.trace, "queryPOST") <= 1
              /\ Count(c.trace, "mapGET") <= 1
              /\ Has(c.trace, "mapGET") =>
                    /\ Count(c.trace, "queryPOST") = 1
                    /\ Before(c.trace, "queryPOST", "mapGET")
                    /\ c.resp.ok /\ c.resp.data.poseFound
                    /\ Len(c.resp.data.mapIds) >= 1
                    /\ c.getId = c.resp.data.mapIds[1]

\* C24 witness: a capture returns after its one map-detail request failed,
\* the response having listed two map ids.
C24_Witness ==
    /\ ret.op = "capture" /\ Settled(ret)
    /\ Len(ret.resp.data.mapIds) = 2 /\ ret.getId = "m2"
    /\ ret.dresp = "fail" /\ Count(ret.trace, "mapGET") = 1

\* C25: onPoseResult is called for every localization response, whether
\* the response says the pose was found or not: a call that got a response
\* to its localization request has notified onPoseResult by the time it
\* returns.
C25_PoseResultAlways ==
    GotQueryResponse(ret) => Count(ret.trace, "onPoseResult") = 1

\* C26: for every projection matrix P and image of width x height, the
\* intrinsics sent are fx = (width/2)*P[0], fy = (height/2)*P[5],
\* px = (1 - P[8])*width/2, py = (1 - P[9])*height/2, with the image's
\* width and height.
C26_Intrinsics ==
    sample.fn = "getCameraIntrinsics" =>
        /\ 2 * sample.out.fx = sample.width * sample.p[0]
        /\ 2 * sample.out.fy = sample.height * sample.p[5]
        /\ 2 * sample.out.px = (1 - sample.p[8]) * sample.width
        /\ 2 * sample.out.py = (1 - sample.p[9]) * sample.height
        /\ sample.out.width = sample.width
        /\ sample.out.height = sample.height

\* C26 witness: an off-centre projection of an image that is not square,
\* whose focal elements differ from its centre elements.
C26_Witness ==
    /\ sample.fn = "getCameraIntrinsics"
    /\ sample.width = 4 /\ sample.height = 2
    /\ sample.p[0] = 2 /\ sample.p[5] = 1 /\ sample.p[8] = -1 /\ sample.p[9] = 0
    /\ sample.out.fx = 4 /\ sample.out.fy = 1
    /\ sample.out.px = 4 /\ sample.out.py = 1

\* C27: the vertical flip is an involution: flipping a width x height
\* RGBA buffer twice gives the buffer back, and one flip moves row r to row
\* height-1-r with the bytes of the row in their order.
C27_FlipInvolution ==
    sample.fn = "flip" =>
        /\ sample.twice = sample.buf
        /\ DOMAIN sample.once = DOMAIN sample.buf
        /\ \A r \in 0..(sample.height - 1), k \in 0..(sample.width * 4 - 1) :
              sample.once[(sample.height - 1 - r) * sample.width * 4 + k]
                = sample.buf[r * sample.width * 4 + k]

\* C27 witness: a buffer of three rows of two pixels whose flip differs
\* from it and from the buffer turned end for end.
C27_Witness ==
    /\ sample.fn = "flip" /\ sample.height = 3 /\ sample.width = 2
    /\ sample.once # sample.buf
    /\ sample.once[0] = sample.buf[16] /\ sample.once[0] # sample.buf[23]
    /\ sample.twice = sample.buf

\* The views the capture of record c has read back so far.
ReadBacks(c) ==
    Count(c.trace, "blob") + Count(c.trace, "emptyBlob")
      + (IF c.pc = "encode" THEN 1 ELSE 0)

\* Between two createFramebuffer events of the trace lies a
\* deleteFramebuffer event.
OneAtATime(trace) ==
    \A i, j \in 1..Len(trace) :
        (i < j /\ trace[i] = "createFramebuffer" /\ trace[j] = "createFramebuffer")
          => \E k \in (i + 1)..(j - 1) : trace[k] = "deleteFramebuffer"

\* C28 (as stated): over a captureFrame() call that reads a view back,
\* also one whose earlier views encode to zero bytes, the number of
\* framebuffers created is one, and every created framebuffer has been
\* deleted when the call settles.
C28_OneFramebufferPerCapture ==
    (ret.op = "capture" /\ Settled(ret) /\ Has(ret.trace, "createFramebuffer")) =>
        /\ Count(ret.trace, "createFramebuffer") = 1
        /\ Count(ret.trace, "deleteFramebuffer") = 1

\* C28 (amended): a capture creates one framebuffer for every view it reads
\* back and deletes it before the read-back's await: at every await and
\* when the call settles, as many framebuffers have been deleted as
\* created, one for each view read back, and no two were alive together.
C28_OneFramebufferPerReadBack ==
    \A c \in Records :
        c.op = "capture" =>
            /\ Count(c.trace, "createFramebuffer") = ReadBacks(c)
            /\ Count(c.trace, "deleteFramebuffer") = Count(c.trace, "createFramebuffer")
            /\ Count(c.trace, "readPixels") = Count(c.trace, "createFramebuffer")
            /\ OneAtATime(c.trace)

\* C28 witness: a capture returns after the first of its two views encoded
\* to zero bytes and the second was sent: two framebuffers, both deleted.
C28_Witness ==
    /\ ret.op = "capture" /\ Settled(ret)
    /\ Count(ret.trace, "emptyBlob") = 1 /\ Count(ret.trace, "blob") = 1
    /\ Count(ret.trace, "createFramebuffer") = 2
    /\ Count(ret.trace, "deleteFramebuffer") = 2

\* C29: the stored access token changes only in the step in which an
\* authorize() obtains a token, and becomes that token; an authorize() that
\* fails (transport failure or token-less response) and every step of a
\* localizeWithFrame, whatever its requests answer, leave it as it was; a
\* token once stored never becomes absent again.
C29_TokenFrame ==
    [][/\ accessToken' # accessToken =>
             /\ AuthorizeSettles /\ Resolved(ret')
             /\ CarriesToken(ret'.token) /\ accessToken' = ret'.token
       /\ (AuthorizeSettles /\ Rejected(ret')) => accessToken' = accessToken
       /\ (AuthorizeSettles /\ Resolved(ret')) => accessToken' = ret'.token
       /\ accessToken # NoToken => accessToken' # NoToken
      ]_vars

\* C29 witness: a token is stored, and an authorize() that got a token-less
\* response has just failed.
C29_Witness ==
    /\ ret.op = "authorize" /\ Rejected(ret)
    /\ ret.aresp.ok /\ ret.err = ErrNoTokenReturned
    /\ accessToken = "t1"

LocalizeEvents ==
    {"onFrameCaptured", "onCameraIntrinsics", "queryPOST", "mapGET", "onPoseResult"}

InitializeAfterDispose ==
    /\ InitializeReturns
    /\ built > 0 /\ env[built].disposed
    /\ isSecureContext

\* C32: after dispose() the controller is not initialized (the accessors
\* throw) and initialize() works again: in a secure context, unless no
\* WebGL context can be had, it builds a new renderer, camera and scene,
\* creates a new launch button and attaches it, invokes onARButtonCreated
\* once for it, and the accessors then return the new handles, none of
\* which dispose() has released.
C32_InitializeAfterDispose ==
    [][InitializeAfterDispose =>
         /\ getScene(ctl).out = "threw" /\ getCamera(ctl).out = "threw"
         /\ getRenderer(ctl).out = "threw"
         /\ Rejected(ret') => ret'.err = ErrWebGL
         /\ Resolved(ret') =>
               LET n == built' IN
                 /\ n = built + 1
                 /\ \A m \in 1..built : env[m].disposed /\ ~env[m].attached
                 /\ ctl'.renderer = n /\ ctl'.camera = n /\ ctl'.scene = n
                 /\ ctl'.arButton = n /\ ret'.handle = n
                 /\ env'[n].attached /\ ~env'[n].disposed
                 /\ Count(ret'.trace, "onARButtonCreated") = 1
                 /\ getScene(ctl') = Return(Call("getScene"), n)
                 /\ getCamera(ctl') = Return(Call("getCamera"), n)
                 /\ getRenderer(ctl') = Return(Call("getRenderer"), n)
      ]_vars

\* C32 witness: initialize() has just built the second renderer, the first
\* having been released by dispose().
C32_Witness ==
    /\ ret.op = "initialize" /\ Resolved(ret) /\ ret.handle = 2
    /\ built = 2 /\ env[1].disposed /\ ~env[1].attached
    /\ ctl.renderer = 2 /\ ctl.scene = 2 /\ env[2].attached
    /\ Has(ret.trace, "onARButtonCreated")

\* What is done on the graphics context of a capture's renderer.
GLEvents == {"createFramebuffer", "readPixels", "deleteFramebuffer", "bindBaseLayer"}

\* The record of the call of slot s after the step: still in its slot, or
\* returned.
Continued(s) == IF calls'[s].op = calls[s].op THEN calls'[s] ELSE ret'

\* C33: no capture continuation operates on a released renderer: once
\* dispose() has released the renderer of a captureFrame() in flight, no
\* step of that capture creates, reads back through, deletes or binds a
\* framebuffer on the renderer's graphics context.
C33_NoUseAfterDispose ==
    [][\A s \in Slots :
         (calls[s].op = "capture" /\ env[calls[s].renderer].disposed) =>
             \A e \in GLEvents :
                 Count(Continued(s).trace, e) = Count(calls[s].trace, e)
      ]_vars

====
